---- MODULE Spec2Model ----
(***************************************************************************)
(* AgroNITY: the /analyze route of app.py and the feasibility / profit     *)
(* pipeline analyze_feasibility of agronity_test.py.                       *)
(*                                                                         *)
(* Strings are sequences of one-character strings, so that str.lower() is  *)
(* computed character by character.  A fixed piece of message text is one  *)
(* element of such a sequence.  Python floats are modelled as exact        *)
(* rationals <<numerator, denominator>> in lowest terms (denominator > 0); *)
(* rounding of the binary floating point format is not modelled.           *)
(***************************************************************************)
EXTENDS Integers, Sequences, FiniteSets, TLC

VARIABLES
    preprocessor,     \* app.py:26 module global, None when loading failed
    clf,              \* app.py:26
    reg,              \* app.py:26
    data_df,          \* app.py:27 module global, None when loading failed
    pc,               \* position of the request being served
    payload,          \* app.py:39 request.get_json(silent=True)
    matched_row,      \* agronity_test.py:88
    input_data,       \* agronity_test.py:91
    X_input,          \* agronity_test.py:116 outcome of preprocessor.transform
    feasibility_prob, \* agronity_test.py:123
    is_feasible,      \* agronity_test.py:124
    raw_yield,        \* agronity_test.py:129 reg.predict(X_input)[0]
    core,             \* how analyze_feasibility left: returned value or raised
    response,         \* what the route analyze answered
    calls             \* the steps executed for the current request, in order

vars == <<preprocessor, clf, reg, data_df, pc, payload, matched_row, input_data,
          X_input, feasibility_prob, is_feasible, raw_yield, core, response, calls>>

\* ------------------------------------------------------------------ bounds

\* plot areas 1 .. MaxAcres acres are requested
MaxAcres == 2
\* the regressor predicts -1 .. MaxRawYield tons per hectare
MaxRawYield == 5

\* --------------------------------------------------------------- rationals

Abs(n) == IF n < 0 THEN -n ELSE n

RECURSIVE GCD(_, _)
GCD(a, b) == IF b = 0 THEN a ELSE GCD(b, a % b)

\* lowest terms, positive denominator
Norm(n, d) ==
    LET g == GCD(Abs(n), Abs(d))
        s == IF d < 0 THEN -1 ELSE 1
    IN  <<s * (n \div g), s * (d \div g)>>

R(n) == <<n, 1>>

\* a * b, reducing across before multiplying
RMul(a, b) ==
    LET g1 == GCD(Abs(a[1]), b[2])
        g2 == GCD(Abs(b[1]), a[2])
        h1 == IF g1 = 0 THEN 1 ELSE g1
        h2 == IF g2 = 0 THEN 1 ELSE g2
    IN  Norm((a[1] \div h1) * (b[1] \div h2), (a[2] \div h2) * (b[2] \div h1))

RSub(a, b) == Norm(a[1] * b[2] - b[1] * a[2], a[2] * b[2])

\* a / b for b # 0
RDiv(a, b) == RMul(a, Norm(b[2], b[1]))

RLess(a, b) == a[1] * b[2] < b[1] * a[2]

\* ----------------------------------------------------------------- strings

LowerTable ==
    ("P" :> "p") @@ ("U" :> "u") @@ ("L" :> "l") @@ ("O" :> "o") @@
    ("W" :> "w") @@ ("H" :> "h") @@ ("K" :> "k") @@ ("S" :> "s")

LowerChar(c) == IF c \in DOMAIN LowerTable THEN LowerTable[c] ELSE c

\* str.lower()
Lower(s) == [i \in DOMAIN s |-> LowerChar(s[i])]

\* t occurs in s as a contiguous run
Contains(s, t) ==
    \E i \in 0..(Len(s) - Len(t)) : \A j \in 1..Len(t) : s[i + j] = t[j]

\* a payload field that is missing (None) or the empty string: both are falsy
Absent == <<>>

\* --------------------------------------------------------- program constants

ACRES_TO_HA == <<4047, 10000>>
MARKETING_LOSSES_FACTOR == <<9, 10>>
YIELD_REALIZATION_FACTOR == <<8, 10>>
DEFAULT_COST_PER_HA == 30000
GROWTH == <<105, 100>>

\* ------------------------------------------------------------- environment

Row(d, s, c, price, prod, rain) ==
    [District |-> d, Soil_Type |-> s, crop |-> c,
     Mandi_Price_Rupees_per_kg |-> R(price),
     Crop_Production_Rate_Yearly |-> R(prod),
     Avg_Rainfall_mm |-> R(rain)]

RowPuLo == Row(<<"P", "u">>, <<"L", "o">>, <<"w", "h">>, 20, 8, 700)
RowpuLO == Row(<<"p", "u">>, <<"L", "O">>, <<"k", "o">>, 30, 10, 900)
RowKoSa == Row(<<"K", "o">>, <<"S", "o">>, <<"w", "h">>, 25, 4, 500)

\* what load_data can return: None, or the rows of the two files in order
NoData == [loaded |-> FALSE, rows |-> <<>>]
Frames ==
    {[loaded |-> TRUE, rows |-> rs] :
        rs \in {<<>>, <<RowPuLo, RowpuLO, RowKoSa>>, <<RowpuLO, RowKoSa, RowPuLo>>}}

\* the fitted preprocessor: the categories it was trained on
NoModel == [loaded |-> FALSE]
Fitted ==
    [loaded |-> TRUE,
     crops |-> {<<"w", "h">>, <<"k", "o">>},
     districts |-> {<<"P", "u">>, <<"p", "u">>},
     soils |-> {<<"L", "o">>, <<"L", "O">>, <<"S", "o">>}]

\* what load_models can return: three artifacts, or three Nones
load_models == {<<NoModel, NoModel, NoModel>>, <<Fitted, [loaded |-> TRUE], [loaded |-> TRUE]>>}
load_data == {NoData} \cup Frames

Crops == {<<"W", "h">>, <<"k", "o">>, <<"s", "u">>}
Districts == {<<"P", "U">>, <<"p", "u">>, <<"K", "o">>, <<"H", "o">>}
Soils == {<<"l", "o">>, <<"L", "O">>, <<"S", "o">>}

Num(r) == [kind |-> "num", val |-> r]
Text == [kind |-> "text", val |-> R(0)]
\* the plot of 20000/4047 acres is the one of exactly 2 hectares
Areas ==
    {Num(R(a)) : a \in 0..MaxAcres} \cup {Num(<<20000, 4047>>), Text}

Costs == {Absent, R(10000)}

JsonObjects ==
    [kind : {"object"}, crop : Crops \cup {Absent}, district : Districts,
     area : Areas, soil : Soils, cost_per_ha : Costs]
NoJson == [kind |-> "none"]
EmptyObject == [kind |-> "empty"]
JsonArray == [kind |-> "array"]
Payloads == {NoJson, EmptyObject, JsonArray} \cup JsonObjects

RawYields == {R(y) : y \in -1..MaxRawYield}
Probabilities == {<<1, 4>>, <<3, 4>>}

None == [none |-> TRUE]

\* ------------------------------------------------------------------- Init

Init ==
    /\ \E m \in load_models :
          /\ preprocessor = m[1]
          /\ clf = m[2]
          /\ reg = m[3]
    /\ data_df \in load_data
    /\ pc = "idle"
    /\ payload = NoJson
    /\ matched_row = None
    /\ input_data = None
    /\ X_input = None
    /\ feasibility_prob = None
    /\ is_feasible = FALSE
    /\ raw_yield = None
    /\ core = [status |-> "none"]
    /\ response = [kind |-> "none"]
    /\ calls = <<>>

Globals == <<preprocessor, clf, reg, data_df>>
Locals == <<matched_row, input_data, X_input, feasibility_prob, is_feasible, raw_yield>>

\* a request arrives; the previous request's frame is gone
Receive ==
    /\ pc \in {"idle", "done"}
    /\ payload' \in Payloads
    /\ pc' = "analyze"
    /\ matched_row' = None
    /\ input_data' = None
    /\ X_input' = None
    /\ feasibility_prob' = None
    /\ is_feasible' = FALSE
    /\ raw_yield' = None
    /\ core' = [status |-> "none"]
    /\ response' = [kind |-> "none"]
    /\ calls' = <<>>
    /\ UNCHANGED Globals

\* ------------------------------------------------------- app.py: analyze

\* the readiness test with the three model artifacts forgotten
NotReadyBug == ~data_df.loaded

\* app.py:36
NotReady ==
    \/ ~preprocessor.loaded
    \/ ~clf.loaded
    \/ ~reg.loaded
    \/ ~data_df.loaded

\* truthiness of a payload field as all([...]) sees it (app.py:48)
Truthy(v) == v # Absent
TruthyArea(a) == a.kind = "text" \/ a.val[1] # 0

Json(status, body) == [kind |-> "json", status |-> status, body |-> body]
Error(text) == [error |-> text]

\* app.py:35-53, up to the call of analyze_feasibility
analyze ==
    /\ pc = "analyze"
    /\ UNCHANGED <<Globals, Locals, payload, core>>
    /\ IF NotReady
       THEN /\ response' = Json(500, Error(<<"Models or data not loaded on server. Check server logs.">>))
            /\ pc' = "done"
            /\ calls' = calls
       ELSE /\ calls' = Append(calls, "payload")
            /\ CASE payload.kind \in {"none", "empty"} ->
                      /\ response' = Json(400, Error(<<"Invalid JSON payload">>))
                      /\ pc' = "done"
                 [] payload.kind = "array" ->
                      \* a list has no attribute 'get': raised at line 43, outside the try
                      /\ response' = [kind |-> "exception", exc |-> "AttributeError"]
                      /\ pc' = "done"
                 [] OTHER ->
                      IF /\ Truthy(payload.crop)
                         /\ Truthy(payload.district)
                         /\ TruthyArea(payload.area)
                         /\ Truthy(payload.soil)
                      THEN /\ response' = response
                           /\ pc' = "match"
                      ELSE /\ response' = Json(400, Error(<<"Missing required fields: crop, district, area, soil">>))
                           /\ pc' = "done"

\* -------------------------------------- agronity_test.py: analyze_feasibility

Returned(v) == [status |-> "returned", value |-> v]
Raised(e) == [status |-> "raised", exc |-> e]
Infeasible(reason) == [feasible |-> FALSE, reasons |-> <<reason>>]

\* the row filter comparing the strings as written
RowMatchesBug(r, district, soil_type) ==
    /\ r.District = district
    /\ r.Soil_Type = soil_type

\* agronity_test.py:78-79, the row filter
RowMatches(r, district, soil_type) ==
    /\ Lower(r.District) = Lower(district)
    /\ Lower(r.Soil_Type) = Lower(soil_type)

\* agronity_test.py:78-79, the rows of the frame that pass the filter, in frame order
MatchRows(rows, district, soil_type) ==
    LET Test(r) == RowMatches(r, district, soil_type)
    IN  SelectSeq(rows, Test)

\* agronity_test.py:88
FirstRow(match) == match[1]

\* the no-data reason quoting the lower-cased strings used for the comparison
NoDataReasonBug(district, soil_type) ==
    <<"No data found for the combination of '">> \o Lower(district) \o <<"' and '">>
        \o Lower(soil_type) \o <<"'. Please check your spelling or try a different combination.">>

\* agronity_test.py:84
NoDataReason(district, soil_type) ==
    <<"No data found for the combination of '">> \o district \o <<"' and '">>
        \o soil_type \o <<"'. Please check your spelling or try a different combination.">>

\* agronity_test.py:78-88
Match ==
    /\ pc = "match"
    /\ calls' = Append(calls, "match")
    /\ UNCHANGED <<Globals, payload, input_data, X_input, feasibility_prob,
                   is_feasible, raw_yield, response>>
    /\ IF ~data_df.loaded
       THEN \* 'NoneType' object is not subscriptable
            /\ core' = Raised("TypeError")
            /\ pc' = "core_exit"
            /\ matched_row' = matched_row
       ELSE LET match == MatchRows(data_df.rows, payload.district, payload.soil)
            IN  IF match = <<>>
                THEN /\ core' = Returned(Infeasible(NoDataReason(payload.district, payload.soil)))
                     /\ pc' = "core_exit"
                     /\ matched_row' = matched_row
                ELSE /\ matched_row' = FirstRow(match)
                     /\ pc' = "assemble"
                     /\ core' = core

\* agronity_test.py:91-110
InputData(row, crop_type, area_size) ==
    [crop |-> Lower(crop_type),
     district |-> row.District,
     soil_type |-> row.Soil_Type,
     area_ha |-> RMul(area_size, ACRES_TO_HA),
     avg_rain |-> row.Avg_Rainfall_mm]

\* agronity_test.py:91-112
Assemble ==
    /\ pc = "assemble"
    /\ UNCHANGED <<Globals, payload, matched_row, X_input, feasibility_prob,
                   is_feasible, raw_yield, response, calls>>
    /\ IF payload.area.kind = "text"
       THEN \* float(area_size): could not convert string to float
            /\ core' = Raised("ValueError")
            /\ pc' = "core_exit"
            /\ input_data' = input_data
       ELSE /\ input_data' = InputData(matched_row, payload.crop, payload.area.val)
            /\ pc' = "transform"
            /\ core' = core

\* the encoder's complaint about a category it was not fitted on
UnknownCategory(v, column) ==
    <<"Found unknown categories ['">> \o v \o <<"'] in column ", column, " during transform">>

\* preprocessor.transform: the encoded row, or the ValueError of the first
\* categorical column whose value is outside the fitted vocabulary
transform(pre, x) ==
    CASE x.crop \notin pre.crops ->
            [status |-> "ValueError", text |-> UnknownCategory(x.crop, "0")]
      [] x.district \notin pre.districts ->
            [status |-> "ValueError", text |-> UnknownCategory(x.district, "1")]
      [] x.soil_type \notin pre.soils ->
            [status |-> "ValueError", text |-> UnknownCategory(x.soil_type, "2")]
      [] OTHER -> [status |-> "ok", row |-> x]

\* the transformation reason without the text of the exception
TransformReasonBug(e) ==
    <<"Error during data transformation. This likely means a new crop, district, or soil type was entered that the model has not seen before.">>

\* agronity_test.py:120
TransformReason(e) ==
    <<"Error during data transformation: ">> \o e
        \o <<". This likely means a new crop, district, or soil type was entered that the model has not seen before.">>

\* agronity_test.py:115-121
Transform ==
    /\ pc = "transform"
    /\ calls' = Append(calls, "transform")
    /\ UNCHANGED <<Globals, payload, matched_row, input_data, feasibility_prob,
                   is_feasible, raw_yield, response>>
    /\ IF ~preprocessor.loaded
       THEN \* 'NoneType' object has no attribute 'transform'
            /\ core' = Raised("AttributeError")
            /\ pc' = "core_exit"
            /\ X_input' = X_input
       ELSE LET out == transform(preprocessor, input_data)
            IN  /\ X_input' = out
                /\ IF out.status = "ValueError"
                   THEN /\ core' = Returned(Infeasible(TransformReason(out.text)))
                        /\ pc' = "core_exit"
                   ELSE /\ core' = core
                        /\ pc' = "classify"

\* what the classifier can do with an encoded row: fail, or give a label and
\* a probability of the positive class
ClfOutcomes ==
    {[raises |-> TRUE, label |-> 0, proba |-> R(0)]}
        \cup [raises : {FALSE}, label : {0, 1}, proba : Probabilities]

\* agronity_test.py:178
GenericReason ==
    <<"Based on the trained model, the combination of factors is not optimal for this crop in this area.">>

\* the classification step going on to the regressor whatever the label
ClassifyBug ==
    /\ pc = "classify"
    /\ calls' = Append(calls, "classify")
    /\ UNCHANGED <<Globals, payload, matched_row, input_data, X_input, raw_yield, response>>
    /\ \E out \in ClfOutcomes :
          IF out.raises \/ ~clf.loaded
          THEN /\ core' = Raised("Exception")
               /\ pc' = "core_exit"
               /\ UNCHANGED <<feasibility_prob, is_feasible>>
          ELSE /\ feasibility_prob' = out.proba
               /\ is_feasible' = (out.label = 1)
               /\ pc' = "predict_yield"
               /\ core' = core

\* agronity_test.py:123-126 and 176-182
Classify ==
    /\ pc = "classify"
    /\ calls' = Append(calls, "classify")
    /\ UNCHANGED <<Globals, payload, matched_row, input_data, X_input, raw_yield, response>>
    /\ \E out \in ClfOutcomes :
          IF out.raises \/ ~clf.loaded
          THEN /\ core' = Raised("Exception")
               /\ pc' = "core_exit"
               /\ UNCHANGED <<feasibility_prob, is_feasible>>
          ELSE /\ feasibility_prob' = out.proba
               /\ is_feasible' = (out.label = 1)
               /\ IF out.label = 1
                  THEN /\ pc' = "predict_yield"
                       /\ core' = core
                  ELSE /\ core' = Returned(Infeasible(GenericReason))
                       /\ pc' = "core_exit"

\* what the regressor can do: fail, or predict a yield, negative ones included
RegOutcomes ==
    {[raises |-> TRUE, value |-> R(0)]} \cup [raises : {FALSE}, value : RawYields]

\* agronity_test.py:128-129
PredictYield ==
    /\ pc = "predict_yield"
    /\ calls' = Append(calls, "predictYield")
    /\ UNCHANGED <<Globals, payload, matched_row, input_data, X_input,
                   feasibility_prob, is_feasible, response>>
    /\ \E out \in RegOutcomes :
          IF out.raises \/ ~reg.loaded
          THEN /\ core' = Raised("Exception")
               /\ pc' = "core_exit"
               /\ raw_yield' = raw_yield
          ELSE /\ raw_yield' = out.value
               /\ pc' = "profit"
               /\ core' = core

\* the raw prediction passed on unclamped
ClampBug(y) == y

\* agronity_test.py:132  max(0, expected_yield_tpha)
Clamp(y) == IF RLess(R(0), y) THEN y ELSE R(0)

\* the price per quintal taken as the price per ton
PricePerTonBug(modal_price_per_quintal) ==
    RMul(modal_price_per_quintal, MARKETING_LOSSES_FACTOR)

\* agronity_test.py:142
PricePerTon(modal_price_per_quintal) ==
    RMul(RMul(modal_price_per_quintal, R(10)), MARKETING_LOSSES_FACTOR)

\* agronity_test.py:145
EffectiveYield(expected_yield_tpha) ==
    RMul(expected_yield_tpha, YIELD_REALIZATION_FACTOR)

\* agronity_test.py:148
TotalRevenue(effective_yield_tpha, price_per_ton, area_ha) ==
    RMul(RMul(effective_yield_tpha, price_per_ton), area_ha)

\* agronity_test.py:151  input_data.get("cost_per_ha", DEFAULT_COST_PER_HA)
CostPerHa(x) ==
    IF "cost_per_ha" \in DOMAIN x THEN x.cost_per_ha ELSE R(DEFAULT_COST_PER_HA)

\* agronity_test.py:152
TotalCost(x) == RMul(CostPerHa(x), x.area_ha)

RECURSIVE MaxOf(_)
MaxOf(s) ==
    IF Len(s) = 1 THEN s[1]
    ELSE LET m == MaxOf(Tail(s))
         IN  IF RLess(s[1], m) THEN m ELSE s[1]

\* agronity_test.py:158  data_df["Crop_Production_Rate_Yearly"].max()
MaxYieldRef(rows) ==
    MaxOf([i \in DOMAIN rows |-> rows[i].Crop_Production_Rate_Yearly])

\* agronity_test.py:159
YieldPercentage(expected_yield_tpha, max_yield_ref) ==
    RMul(RDiv(expected_yield_tpha, max_yield_ref), R(100))

\* agronity_test.py:132-175
Estimate(row, x, rows, prob, raw) ==
    LET expected_yield_tpha == Clamp(raw)
        modal_price_per_quintal == row.Mandi_Price_Rupees_per_kg
        price_per_ton == PricePerTon(modal_price_per_quintal)
        effective_yield_tpha == EffectiveYield(expected_yield_tpha)
        total_revenue == TotalRevenue(effective_yield_tpha, price_per_ton, x.area_ha)
        total_cost == TotalCost(x)
        profit == RSub(total_revenue, total_cost)
    IN  [feasible |-> TRUE,
         probability |-> prob,
         expected_yield_tpha |-> expected_yield_tpha,
         yield_percentage |-> YieldPercentage(expected_yield_tpha, MaxYieldRef(rows)),
         profit_rs |-> profit,
         total_revenue_rs |-> total_revenue,
         revenue_1yr_rs |-> RMul(total_revenue, GROWTH),
         revenue_2yr_rs |-> RMul(total_revenue, RMul(GROWTH, GROWTH)),
         mandi_price_rs_per_quintal |-> modal_price_per_quintal]

\* agronity_test.py:132-175
Profit ==
    /\ pc = "profit"
    /\ calls' = Append(calls, "profit")
    /\ core' = Returned(Estimate(matched_row, input_data, data_df.rows,
                                  feasibility_prob, raw_yield))
    /\ pc' = "core_exit"
    /\ UNCHANGED <<Globals, Locals, payload, response>>

\* app.py:53-58, from the return of analyze_feasibility on
Respond ==
    /\ pc = "core_exit"
    /\ response' =
          IF core.status = "returned"
          THEN Json(200, core.value)
          ELSE Json(500, Error(<<"Server error during analysis: ", core.exc>>))
    /\ pc' = "done"
    /\ UNCHANGED <<Globals, Locals, payload, core, calls>>

Next ==
    \/ Receive
    \/ analyze
    \/ Match
    \/ Assemble
    \/ Transform
    \/ Classify
    \/ PredictYield
    \/ Profit
    \/ Respond

Spec == Init /\ [][Next]_vars

\* ====================================================== the claims, checked

\* the steps of one request, in the order the code can execute them
Pipeline == <<"payload", "match", "transform", "classify", "predictYield", "profit">>

IsPrefix(s, t) == Len(s) <= Len(t) /\ \A i \in 1..Len(s) : s[i] = t[i]

Ran(step) == \E i \in DOMAIN calls : calls[i] = step

\* equality of two strings ignoring letter case
SameIgnoringCase(a, b) ==
    /\ Len(a) = Len(b)
    /\ \A i \in 1..Len(a) : LowerChar(a[i]) = LowerChar(b[i])

\* row i of the frame is a record for the requested district and soil
RecordFor(i) ==
    /\ SameIgnoringCase(data_df.rows[i].District, payload.district)
    /\ SameIgnoringCase(data_df.rows[i].Soil_Type, payload.soil)

\* the request passed the route's validation and reached analyze_feasibility
Entered == Ran("match")

CoreReturned == core.status = "returned"
FeasibleResult == CoreReturned /\ core.value.feasible
InfeasibleResult == CoreReturned /\ ~core.value.feasible

\* C1: the stages run in the order match, transform, classify, predictYield,
\* profit, each at most once, each only after the ones before it succeeded;
\* a classifier answer "not feasible" ends in Infeasible with the one fixed
\* generic reason.
C1_StageOrder ==
    /\ IsPrefix(calls, Pipeline)
    /\ Ran("transform") => \E i \in DOMAIN data_df.rows : RecordFor(i)
    /\ Ran("classify") => X_input.status = "ok"
    /\ Ran("predictYield") => is_feasible
    /\ Ran("profit") => is_feasible /\ raw_yield \in RawYields
    /\ (Ran("classify") /\ ~is_feasible /\ CoreReturned) =>
          /\ core.value = Infeasible(GenericReason)
          /\ ~Ran("predictYield")

\* a request ran all five stages and was answered with a Feasible result
C1_Witness ==
    /\ pc = "done"
    /\ calls = Pipeline
    /\ response.kind = "json"
    /\ response.status = 200
    /\ response.body.feasible

\* C2: a request whose (district, soil_type) matches no record, ignoring
\* case, is answered Infeasible with a reason that contains the district and
\* the soil_type exactly as the caller wrote them.
C2_NoMatchReason ==
    (/\ pc = "done"
     /\ Entered
     /\ \A i \in DOMAIN data_df.rows : ~RecordFor(i)) =>
        /\ response.kind = "json"
        /\ response.status = 200
        /\ ~response.body.feasible
        /\ Len(response.body.reasons) = 1
        /\ Contains(response.body.reasons[1], payload.district)
        /\ Contains(response.body.reasons[1], payload.soil)

\* an upper-case district that is in no record was answered
C2_Witness ==
    /\ pc = "done"
    /\ Entered
    /\ data_df.rows # <<>>
    /\ payload.district = <<"H", "o">>
    /\ \A i \in DOMAIN data_df.rows : ~RecordFor(i)
    /\ response.kind = "json"
    /\ ~response.body.feasible

\* the request carries the four required fields
WellFormed ==
    /\ payload.kind = "object"
    /\ payload.crop # Absent
    /\ payload.district # Absent
    /\ payload.soil # Absent
    /\ payload.area.kind = "num"
    /\ payload.area.val[1] > 0

ModelsLoaded == preprocessor.loaded /\ clf.loaded /\ reg.loaded

\* C3: with an empty or absent (None) Record Store every query is answered
\* with the NoMatchingRecord outcome: Infeasible with the no-data reason.
C3_AbsentStoreNoMatch ==
    (/\ pc = "done"
     /\ ModelsLoaded
     /\ WellFormed
     /\ (~data_df.loaded \/ data_df.rows = <<>>)) =>
        /\ response.kind = "json"
        /\ response.status = 200
        /\ response.body = Infeasible(NoDataReason(payload.district, payload.soil))

\* C4: analyze_feasibility lets no exception escape to its caller.
C4_CoreNeverRaises == core.status # "raised"

\* C5: when a record matched and transform fails on a category outside the
\* vocabulary, the answer is Infeasible with a reason that carries the text
\* of the transformation error, and neither the classifier nor the regressor
\* is invoked.
C5_TransformErrorSurfaced ==
    (/\ Ran("transform")
     /\ X_input.status = "ValueError") =>
        /\ ~Ran("classify")
        /\ ~Ran("predictYield")
        /\ InfeasibleResult
        /\ Len(core.value.reasons) = 1
        /\ Contains(core.value.reasons[1], X_input.text)
        /\ pc \in {"core_exit", "done"}
        /\ pc = "done" => response = Json(200, core.value)

\* a crop outside the vocabulary was answered
C5_Witness ==
    /\ pc = "done"
    /\ Ran("transform")
    /\ X_input.status = "ValueError"
    /\ input_data.crop = <<"s", "u">>
    /\ response.kind = "json"
    /\ response.status = 200
    /\ ~response.body.feasible

NotLoadedAnswer ==
    Json(500, Error(<<"Models or data not loaded on server. Check server logs.">>))

\* C6: when the preprocessor, the classifier or the regressor is absent,
\* every request is answered with the service-not-ready result and no step
\* (payload inspection, matching, transform, prediction) was executed; no
\* other outcome carries that result.
C6_NotReadyFirst ==
    /\ (~ModelsLoaded /\ pc # "idle") =>
          /\ calls = <<>>
          /\ pc \in {"analyze", "done"}
          /\ pc = "done" => response = NotLoadedAnswer
    /\ (pc = "done" /\ response = NotLoadedAnswer) =>
          (~ModelsLoaded \/ ~data_df.loaded)

\* a well-formed request was answered not-ready although the data is loaded
C6_Witness ==
    /\ pc = "done"
    /\ ~ModelsLoaded
    /\ data_df.loaded
    /\ WellFormed
    /\ response = NotLoadedAnswer

\* row i is the first record, in frame order, for district d and soil s
FirstRecordFor(i, d, s) ==
    /\ SameIgnoringCase(data_df.rows[i].District, d)
    /\ SameIgnoringCase(data_df.rows[i].Soil_Type, s)
    /\ \A j \in 1..(i - 1) :
          ~(/\ SameIgnoringCase(data_df.rows[j].District, d)
            /\ SameIgnoringCase(data_df.rows[j].Soil_Type, s))

\* C7: the record used is the first one in store order whose district and
\* soil_type equal the query's ignoring case; a query that differs only in
\* case selects the same record; the feature vector carries the record's
\* spellings of district and soil_type.
C7_FirstMatchIgnoringCase ==
    (Entered /\ pc \notin {"match", "core_exit", "done"}) =>
        /\ \E i \in DOMAIN data_df.rows :
              /\ matched_row = data_df.rows[i]
              /\ FirstRecordFor(i, payload.district, payload.soil)
        /\ \A d \in Districts, s \in Soils :
              (SameIgnoringCase(d, payload.district) /\ SameIgnoringCase(s, payload.soil)) =>
                  /\ MatchRows(data_df.rows, d, s) # <<>>
                  /\ FirstRow(MatchRows(data_df.rows, d, s)) = matched_row
        /\ pc # "assemble" =>
              /\ input_data.district = matched_row.District
              /\ input_data.soil_type = matched_row.Soil_Type

\* the caller wrote PU / lo, two records match, and the feature vector holds
\* the spelling of the first of them
C7_Witness ==
    /\ pc = "transform"
    /\ payload.district = <<"P", "U">>
    /\ payload.soil = <<"l", "o">>
    /\ matched_row = data_df.rows[1]
    /\ SameIgnoringCase(data_df.rows[3].District, payload.district)
    /\ SameIgnoringCase(data_df.rows[3].Soil_Type, payload.soil)
    /\ input_data.district = <<"p", "u">>
    /\ input_data.soil_type = <<"L", "O">>

\* (0.80 * yield) * (price * 10 * 0.90) * area
RevenueOf(yield, price, area) ==
    RMul(RMul(RMul(<<8, 10>>, yield), RMul(RMul(price, R(10)), <<9, 10>>)), area)

\* C8: in a Feasible result without a cost override,
\* total_revenue_rs = (0.80 * expected_yield) * (mandi_price * 10 * 0.90) * area_ha
\* and profit_rs = total_revenue_rs - 30000 * area_ha; mandi_price 20,
\* expected_yield 5.0 and area_ha 2.0 give revenue 1440 and profit -58560.
C8_ProfitFormula ==
    (FeasibleResult /\ payload.cost_per_ha = Absent) =>
        LET v == core.value
            price == matched_row.Mandi_Price_Rupees_per_kg
            area == input_data.area_ha
        IN  /\ v.total_revenue_rs = RevenueOf(v.expected_yield_tpha, price, area)
            /\ v.profit_rs = RSub(v.total_revenue_rs, RMul(R(30000), area))
            /\ (price = R(20) /\ v.expected_yield_tpha = R(5) /\ area = R(2)) =>
                  /\ v.total_revenue_rs = R(1440)
                  /\ v.profit_rs = R(-58560)

\* the worked example: price 20, yield 5.0, 2.0 hectares
C8_Witness ==
    /\ FeasibleResult
    /\ payload.cost_per_ha = Absent
    /\ matched_row.Mandi_Price_Rupees_per_kg = R(20)
    /\ core.value.expected_yield_tpha = R(5)
    /\ input_data.area_ha = R(2)
    /\ core.value.profit_rs = R(-58560)

\* C9: a cost_per_ha supplied by the caller is used: total_cost is the
\* override times area_ha, and 30000 per hectare only without an override.
C9_CostOverrideUsed ==
    (FeasibleResult /\ payload.cost_per_ha # Absent) =>
        core.value.profit_rs =
            RSub(core.value.total_revenue_rs, RMul(payload.cost_per_ha, input_data.area_ha))

\* max(0, raw)
NonNegative(raw) == IF raw[1] > 0 THEN raw ELSE R(0)

\* v is the largest Crop_Production_Rate_Yearly of the frame
IsCeiling(v) ==
    /\ \E i \in DOMAIN data_df.rows : data_df.rows[i].Crop_Production_Rate_Yearly = v
    /\ \A i \in DOMAIN data_df.rows :
          ~RLess(v, data_df.rows[i].Crop_Production_Rate_Yearly)

\* C10: in a Feasible result the expected yield is max(0, raw prediction),
\* never negative, and revenue, profit and yield_percentage are computed
\* from the clamped value.
C10_YieldClamped ==
    FeasibleResult =>
        LET v == core.value
            y == NonNegative(raw_yield)
            price == matched_row.Mandi_Price_Rupees_per_kg
            area == input_data.area_ha
        IN  /\ v.expected_yield_tpha[1] >= 0
            /\ v.expected_yield_tpha = y
            /\ v.total_revenue_rs = RevenueOf(y, price, area)
            /\ v.profit_rs = RSub(RevenueOf(y, price, area), RMul(R(30000), area))
            /\ \E ceiling \in {data_df.rows[i].Crop_Production_Rate_Yearly : i \in DOMAIN data_df.rows} :
                  /\ IsCeiling(ceiling)
                  /\ RMul(v.yield_percentage, ceiling) = RMul(y, R(100))

\* the regressor predicted a negative yield and the result reports 0
C10_Witness ==
    /\ FeasibleResult
    /\ raw_yield = R(-1)
    /\ core.value.expected_yield_tpha = R(0)
    /\ core.value.total_revenue_rs = R(0)
====
